---- MODULE Spec2Model ----
(***************************************************************************)
(* Model of the workout assembly handler generate_workout of src/main.py   *)
(* (POST /generate-workout): request validation, the per-slot constraint   *)
(* filter, the guaranteed-bookends time-budget walk over the archetype     *)
(* plan, random selection and the alternatives list.                       *)
(*                                                                         *)
(* Text that the code manipulates character by character (the focus, the   *)
(* exercise names and the exclusion terms) is a sequence of one-character  *)
(* strings.  Tags that the code only compares for equality are strings:    *)
(* the catalog loader has already stripped and lower-cased workoutRole,    *)
(* workoutSubtype and bodyRegion (main.py 84-88) and the plan tags are     *)
(* lower-case literals, so the filter's strip().lower() leaves every value *)
(* that reaches it unchanged.                                              *)
(***************************************************************************)
EXTENDS Integers, Sequences, FiniteSets, TLC

VARIABLES
    EXERCISES,      \* the loaded catalog, a list of exercise records
    request,        \* the request as received (never changed)
    data,           \* the request object as the handler mutates it
    focus,          \* the normalized focus ("" before validation)
    output,         \* the list of exercise records built so far
    current_time,   \* minutes consumed, as the handler counts them
    idx,            \* plan index of the next middle slot
    pc,             \* position in the handler
    response,       \* the HTTP outcome
    steps           \* history: what each slot attempt did

vars == <<EXERCISES, request, data, focus, output, current_time, idx, pc, response, steps>>

-----------------------------------------------------------------------------
(* Bounds of the model *)

MaxTime == 40

-----------------------------------------------------------------------------
(* Text helpers *)

UpperChars == <<"A","B","C","D","E","F","G","H","I","J","K","L","M",
                "N","O","P","Q","R","S","T","U","V","W","X","Y","Z">>

LowerChars == <<"a","b","c","d","e","f","g","h","i","j","k","l","m",
                "n","o","p","q","r","s","t","u","v","w","x","y","z">>

\* str.lower() on one character
LowerChar(c) ==
    IF \E i \in DOMAIN UpperChars : UpperChars[i] = c
    THEN LowerChars[CHOOSE i \in DOMAIN UpperChars : UpperChars[i] = c]
    ELSE c

\* str.lower()
Lower(s) == [i \in DOMAIN s |-> LowerChar(s[i])]

\* str.replace(" ", "")
RemoveSpaces(s) == SelectSeq(s, LAMBDA c : c # " ")

\* Python's `sub in s` on strings: sub occurs in s as a contiguous run
Contains(s, sub) ==
    \E k \in 0..(Len(s) - Len(sub)) :
        \A j \in 1..Len(sub) : s[k + j] = sub[j]

Min(a, b) == IF a <= b THEN a ELSE b

Range(s) == {s[i] : i \in DOMAIN s}

-----------------------------------------------------------------------------
(* Static configuration of the handler *)

REST_TIME_DEFAULT == 60

\* Each slot is <<subtype, sets, reps>>.
ARCHETYPE_PLANS ==
    [ Prime |-> << <<"powercompound", 3, "3-5">>,
                   <<"explosive", 3, "5">>,
                   <<"contrast set", 3, "6">>,
                   <<"unilateralisolation", 2, "8-10">>,
                   <<"core", 3, "20">> >>,
      Titan |-> << <<"powercompound", 4, "5">>,
                   <<"volumecompound", 4, "6">>,
                   <<"bilateralisolation", 3, "10-12">>,
                   <<"bilateralisolation", 3, "10-12">>,
                   <<"core", 3, "15">> >>,
      Vanguard |-> << <<"offset load", 3, "6-8">>,
                      <<"unilateralcompound", 3, "8">>,
                      <<"isometric", 3, "20-30s">>,
                      <<"carry/load", 3, "30s">>,
                      <<"core", 3, "15">> >>,
      Bodyweight |-> << <<"mobility", 2, "30-60s">>,
                        <<"explosive", 2, "5-6">>,
                        <<"lowercompound", 2, "10-15">>,
                        <<"uppercompound", 2, "8-12">>,
                        <<"unilateral", 2, "8-10">>,
                        <<"isometric", 2, "20-30s">>,
                        <<"core", 2, "20">> >> ]

SUBTYPE_TIMES ==
    ("powercompound" :> 10) @@ ("volumecompound" :> 8) @@
    ("unilateralisolation" :> 6) @@ ("bilateralisolation" :> 6) @@
    ("core" :> 5) @@ ("explosive" :> 6) @@ ("contrast set" :> 8) @@
    ("carry/load" :> 6) @@ ("offset load" :> 6) @@ ("isometric" :> 5) @@
    ("unilateralcompound" :> 6) @@ ("mobility" :> 5) @@
    ("lowercompound" :> 6) @@ ("uppercompound" :> 6) @@ ("unilateral" :> 6)

\* SUBTYPE_TIMES.get(subtype, dflt)
SubtypeTime(subtype, dflt) ==
    IF subtype \in DOMAIN SUBTYPE_TIMES THEN SUBTYPE_TIMES[subtype] ELSE dflt

\* The fallback costs the handler passes to SUBTYPE_TIMES.get
DefaultBlockTime == 6
DefaultCoreTime == 5

DEFAULT_EQUIPMENT == <<"Barbell", "Dumbbell", "Cable", "Kettlebell", "Machine", "Bodyweight">>

\* The mutant: an unregistered archetype falls back to a registered plan.
PlanOfFallback(archetype) ==
    IF archetype \in DOMAIN ARCHETYPE_PLANS
    THEN ARCHETYPE_PLANS[archetype] ELSE ARCHETYPE_PLANS["Prime"]

\* ARCHETYPE_PLANS.get(archetype): <<>> stands for None
PlanOf(archetype) ==
    IF archetype \in DOMAIN ARCHETYPE_PLANS THEN ARCHETYPE_PLANS[archetype] ELSE <<>>

focus_map ==
    (<<"u","p","p","e","r">> :> "upper") @@ (<<"u","p","p","e","r","b","o","d","y">> :> "upper") @@
    (<<"l","o","w","e","r">> :> "lower") @@ (<<"l","o","w","e","r","b","o","d","y">> :> "lower") @@
    (<<"f","u","l","l","b","o","d","y">> :> "full body") @@ (<<"f","u","l","l">> :> "full body")

\* data.focus.lower().replace(" ", "")
NormalizeFocus(f) == RemoveSpaces(Lower(f))

-----------------------------------------------------------------------------
(* The inputs: catalogs and requests *)

NamePlank == <<"P","l","a","n","k">>
NameCrunch == <<"C","r","u","n","c","h">>
NameRollout == <<"R","o","l","l","o","u","t">>
NameSquat == <<"S","q","u","a","t">>
NameBench == <<"B","e","n","c","h">>
NamePress == <<"P","r","e","s","s">>
NameCurl == <<"C","u","r","l">>
NameJump == <<"J","u","m","p">>
NameLunge == <<"L","u","n","g","e">>
NameCarry == <<"C","a","r","r","y">>
NameTwist == <<"T","w","i","s","t">>
NameRaise == <<"R","a","i","s","e">>
NamePallof == <<"P","a","l","l","o","f">>
NameDeadlift == <<"D","e","a","d","l","i","f","t">>


\* One row of the exercise sheet as the loader stores it.
Ex(name, muscle, movement, region, equipment, role, subtype, archetypes) ==
    [ name |-> name, muscleGroup |-> muscle, bodyRegion |-> region,
      movementType |-> movement, equipment |-> equipment,
      workoutRole |-> role, workoutSubtype |-> subtype, archetypes |-> archetypes ]

\* The rows of the sheet; names are unique.
Universe ==
    << Ex(NamePlank, "Abs", "Isometric", "core", <<"Bodyweight">>,
          "core", "isometric", <<"Prime", "Titan", "Vanguard", "Bodyweight">>),
       Ex(NameSquat, "Quads", "Compound", "lower", <<"Barbell">>,
          "strength", "powercompound", <<"Prime", "Titan">>),
       Ex(NamePress, "Chest", "Compound", "upper", <<"Machine", "Dumbbell">>,
          "volumecompound", "bilateralisolation", <<"Titan">>),
       Ex(NameCurl, "Biceps", "Isolation", "upper", <<"Bands">>,
          "accessory", "bilateralisolation", <<"Titan", "Prime">>),
       Ex(NameRollout, "Abs", "Compound", "core", <<"Barbell">>,
          "core", "powercompound", <<"Prime", "Titan", "Vanguard">>),
       Ex(NameBench, "Chest", "Compound", "upper", <<"Barbell", "Dumbbell">>,
          "strength", "powercompound", <<"Prime", "Titan">>),
       Ex(NameCrunch, "Abs", "Isolation", "core", <<"Bodyweight">>,
          "finisher", "core", <<"Titan", "Vanguard", "BodyWeight">>),
       Ex(NameJump, "Quads", "Plyometric", "lower", <<"Bodyweight">>,
          "unilateralcompound", "explosive", <<"Prime", "Vanguard", "BodyWeight">>),
       Ex(NameLunge, "Quads", "Compound", "lower", <<"Dumbbell", "Bodyweight">>,
          "unilateralcompound", "unilateralisolation", <<"Prime", "Vanguard", "Bodyweight">>),
       Ex(NameCarry, "Forearms", "Carry", "full body", <<"Kettlebell">>,
          "carry/load", "offset load", <<"Vanguard">>),
       Ex(NameTwist, "Obliques", "Rotation", "core", <<"Cable", "Bodyweight">>,
          "core", "mobility", <<"Vanguard", "Bodyweight">>),
       Ex(NameRaise, "Abs", "Isolation", "core", <<"Bodyweight">>,
          "accessory", "core", <<"Vanguard">>),
       Ex(NamePallof, "Abs", "Isometric", "core", <<"Cable">>,
          "accessory", "core", <<"Vanguard">>),
       Ex(NameDeadlift, "Back", "Compound", "lower", <<"Barbell">>,
          "strength", "powercompound", <<"Prime", "Titan">>) >>

\* How many rows of the sheet a catalog may hold.
MaxCatalog == 13

\* The catalogs: the first n rows of the sheet (none when the load failed).
Catalogs == {SubSeq(Universe, 1, n) : n \in 0..Min(MaxCatalog, Len(Universe))}

ArchetypeInputs == {"", "Ghost", "Prime", "Titan", "Vanguard", "Bodyweight"}

FocusInputs ==
    { <<"U","p","p","e","r">>,
      <<"l","o","w","e","r"," ","b","o","d","y">>,
      <<"F","u","l","l"," ","B","o","d","y">>,
      <<"l","e","g","s">> }

EquipmentInputs == { <<>>, <<"Barbell">>, <<"Bands", "Dumbbell">> }

\* Exclusion terms: none; the empty term; two terms in mixed case.
PrefsInputs == { <<>>, << <<>> >>, << <<"S","Q">>, <<"u","n">> >> }

\* A request as the schema delivers it: the budget is a number of minutes
\* from 0 up, equipmentAccess and userPrefs are lists (possibly empty).
Requests ==
    [ availableTime : 0..MaxTime, archetype : ArchetypeInputs, focus : FocusInputs,
      equipmentAccess : EquipmentInputs, userPrefs : PrefsInputs ]

-----------------------------------------------------------------------------
(* filter_exercises and the selection helpers *)

\* data.archetype == "Bodyweight" and "BodyWeight" in ex["archetypes"]
\*   or data.archetype in ex["archetypes"]
ArchetypeMatch(ex, archetype) ==
    \/ (archetype = "Bodyweight" /\ "BodyWeight" \in Range(ex.archetypes))
    \/ archetype \in Range(ex.archetypes)

\* The mutant: the equipment condition is dropped.
EquipmentMatchAny(ex, equipmentAccess) == TRUE

\* any(eq in data.equipmentAccess for eq in ex["equipment"])
EquipmentMatch(ex, equipmentAccess) ==
    \E i \in DOMAIN ex.equipment : ex.equipment[i] \in Range(equipmentAccess)

\* The mutant: the focus is ignored.
BodyRegionFilterAnyFocus(subtype, f) ==
    IF subtype = "core" THEN {"core"}
    ELSE {"upper", "lower", "full body", "core"}

\* body_region_filter
BodyRegionFilter(subtype, f) ==
    IF subtype = "core" THEN {"core"}
    ELSE IF f = "upper" THEN {"upper"}
    ELSE IF f = "lower" THEN {"lower"}
    ELSE {"upper", "lower", "full body", "core"}

\* any(pref.lower() in ex["name"].lower() for pref in data.userPrefs)
Excluded(ex, userPrefs) ==
    \E i \in DOMAIN userPrefs : Contains(Lower(ex.name), Lower(userPrefs[i]))

\* The list `filtered` of filter_exercises(subtype, sets, reps)
FilterExercises(catalog, d, f, subtype) ==
    SelectSeq(catalog, LAMBDA ex :
        /\ (subtype = ex.workoutSubtype \/ subtype = ex.workoutRole)
        /\ ArchetypeMatch(ex, d.archetype)
        /\ EquipmentMatch(ex, d.equipmentAccess)
        /\ ex.bodyRegion \in BodyRegionFilter(subtype, f)
        /\ ~Excluded(ex, d.userPrefs))

\* The mutant: the chosen exercise is not removed from its alternatives.
AltsWithChosen(filtered, chosen) ==
    LET same == SelectSeq(filtered, LAMBDA alt : alt.muscleGroup = chosen.muscleGroup)
    IN  [i \in DOMAIN same |-> same[i].name]

\* alts: the names of the other exercises of the pool with the chosen muscle group
Alts(filtered, chosen) ==
    LET same == SelectSeq(filtered, LAMBDA alt :
                    alt.name # chosen.name /\ alt.muscleGroup = chosen.muscleGroup)
    IN  [i \in DOMAIN same |-> same[i].name]

\* The mutant: the list of alternatives is not capped.
SampleSizeAll(alts) == Len(alts)

\* min(3, len(alts))
SampleSize(alts) == Min(3, Len(alts))

\* random.sample(alts, k): every list of k entries drawn from distinct positions
Samples(alts, k) ==
    { [i \in 1..k |-> alts[p[i]]] :
        p \in {q \in [1..k -> DOMAIN alts] : \A a, b \in 1..k : a # b => q[a] # q[b]} }

\* The records the handler can append for a slot: random.choice over the pool,
\* random.sample over the alternatives.
Picks(filtered, slot, suggestion) ==
    UNION { { [ name |-> filtered[c].name,
                muscleGroup |-> filtered[c].muscleGroup,
                movementType |-> filtered[c].movementType,
                sets |-> slot[2],
                reps |-> slot[3],
                rest |-> REST_TIME_DEFAULT,
                alternatives |-> a,
                suggestion |-> suggestion ] :
              a \in Samples(Alts(filtered, filtered[c]),
                            SampleSize(Alts(filtered, filtered[c]))) } :
            c \in DOMAIN filtered }

\* The mutant: the slot is admitted whatever it costs.
FitsAlways(consumed, block_time, max_time) == TRUE

\* current_time + block_time <= max_time
Fits(consumed, block_time, max_time) == consumed + block_time <= max_time

\* The mutant: the middle loop tests the whole budget, reserving nothing.
ReserveExceededNoReserve(consumed, subtype, max_time) ==
    consumed + SubtypeTime(subtype, DefaultBlockTime) > max_time

\* current_time + SUBTYPE_TIMES.get(subtype.lower(), 6)
\*     > max_time - SUBTYPE_TIMES.get("core", 5)
ReserveExceeded(consumed, subtype, max_time) ==
    consumed + SubtypeTime(subtype, DefaultBlockTime)
        > max_time - SubtypeTime("core", DefaultCoreTime)


-----------------------------------------------------------------------------
(* The handler, one action per step *)

Plan == PlanOf(data.archetype)

\* The subtype tag of plan slot k
Tag(k) == Plan[k][1]

Reply(status, detail) == [status |-> status, detail |-> detail]

\* What one slot attempt did: the slot's plan index, the minutes consumed
\* before it, and its outcome.
Step(k, verdict) == [slot |-> k, before |-> current_time, verdict |-> verdict]

\* Lines 174-177: the equipment access the handler stores back into the request
EffectiveEquipment(d) ==
    IF d.archetype = "Bodyweight" THEN <<"Bodyweight">>
    ELSE IF d.equipmentAccess = <<>> THEN DEFAULT_EQUIPMENT
    ELSE d.equipmentAccess

Init ==
    /\ EXERCISES \in Catalogs
    /\ request \in Requests
    /\ data = request
    /\ focus = ""
    /\ output = <<>>
    /\ current_time = 0
    /\ idx = 0
    /\ pc = "start"
    /\ response = Reply(0, "")
    /\ steps = <<>>

\* Lines 171-172
RejectMissingArchetype ==
    /\ pc = "start"
    /\ data.archetype = ""
    /\ response' = Reply(400, "Archetype is required.")
    /\ pc' = "done"
    /\ UNCHANGED <<EXERCISES, request, data, focus, output, current_time, idx, steps>>

\* Lines 174-181
RejectInvalidArchetype ==
    /\ pc = "start"
    /\ data.archetype # ""
    /\ PlanOf(data.archetype) = <<>>
    /\ data' = [data EXCEPT !.equipmentAccess = EffectiveEquipment(data)]
    /\ response' = Reply(400, "Invalid archetype")
    /\ pc' = "done"
    /\ UNCHANGED <<EXERCISES, request, focus, output, current_time, idx, steps>>

\* Lines 174-194
RejectInvalidFocus ==
    /\ pc = "start"
    /\ data.archetype # ""
    /\ PlanOf(data.archetype) # <<>>
    /\ NormalizeFocus(data.focus) \notin DOMAIN focus_map
    /\ data' = [data EXCEPT !.equipmentAccess = EffectiveEquipment(data)]
    /\ response' = Reply(400, "Focus must be Upper, Lower, or Full Body")
    /\ pc' = "done"
    /\ UNCHANGED <<EXERCISES, request, focus, output, current_time, idx, steps>>

\* Lines 174-204
Accept ==
    /\ pc = "start"
    /\ data.archetype # ""
    /\ PlanOf(data.archetype) # <<>>
    /\ NormalizeFocus(data.focus) \in DOMAIN focus_map
    /\ data' = [data EXCEPT !.equipmentAccess = EffectiveEquipment(data)]
    /\ focus' = focus_map[NormalizeFocus(data.focus)]
    /\ output' = <<>>
    /\ current_time' = 0
    /\ pc' = "main"
    /\ UNCHANGED <<EXERCISES, request, idx, response, steps>>

\* Lines 239-256, the branch taken
MainLiftChosen ==
    /\ pc = "main"
    /\ LET filtered == FilterExercises(EXERCISES, data, focus, Tag(1))
           block_time == SubtypeTime(Tag(1), DefaultBlockTime)
       IN  /\ filtered # <<>>
           /\ Fits(current_time, block_time, data.availableTime)
           /\ \E rec \in Picks(filtered, Plan[1], "Main lift to start the workout") :
                  output' = Append(output, rec)
           /\ current_time' = current_time + block_time
    /\ steps' = Append(steps, Step(1, "chosen"))
    /\ idx' = 2
    /\ pc' = "middle"
    /\ UNCHANGED <<EXERCISES, request, data, focus, response>>

\* Lines 239-240, the branch not taken
MainLiftOmitted ==
    /\ pc = "main"
    /\ LET filtered == FilterExercises(EXERCISES, data, focus, Tag(1))
           block_time == SubtypeTime(Tag(1), DefaultBlockTime)
       IN  /\ ~(filtered # <<>> /\ Fits(current_time, block_time, data.availableTime))
           /\ steps' = Append(steps, Step(1, IF filtered = <<>> THEN "empty" ELSE "nofit"))
    /\ idx' = 2
    /\ pc' = "middle"
    /\ UNCHANGED <<EXERCISES, request, data, focus, output, current_time, response>>

\* Line 259: remaining_plan = plan[1:-1] is exhausted
MiddleDone ==
    /\ pc = "middle"
    /\ idx > Len(Plan) - 1
    /\ pc' = "core"
    /\ UNCHANGED <<EXERCISES, request, data, focus, output, current_time, idx, response, steps>>

\* The mutant: a slot that breaks the reserve is skipped (continue) and the
\* loop goes on, instead of ending the loop.
MiddleBreakContinues ==
    /\ pc = "middle"
    /\ idx <= Len(Plan) - 1
    /\ ReserveExceeded(current_time, Tag(idx), data.availableTime)
    /\ steps' = Append(steps, Step(idx, "break"))
    /\ idx' = idx + 1
    /\ UNCHANGED <<EXERCISES, request, data, focus, output, current_time, pc, response>>

\* Lines 260-261
MiddleBreak ==
    /\ pc = "middle"
    /\ idx <= Len(Plan) - 1
    /\ ReserveExceeded(current_time, Tag(idx), data.availableTime)
    /\ steps' = Append(steps, Step(idx, "break"))
    /\ pc' = "core"
    /\ UNCHANGED <<EXERCISES, request, data, focus, output, current_time, idx, response>>

\* Lines 263-265
MiddleSkip ==
    /\ pc = "middle"
    /\ idx <= Len(Plan) - 1
    /\ ~ReserveExceeded(current_time, Tag(idx), data.availableTime)
    /\ FilterExercises(EXERCISES, data, focus, Tag(idx)) = <<>>
    /\ steps' = Append(steps, Step(idx, "empty"))
    /\ idx' = idx + 1
    /\ UNCHANGED <<EXERCISES, request, data, focus, output, current_time, pc, response>>

\* Lines 263-282
MiddleChosen ==
    /\ pc = "middle"
    /\ idx <= Len(Plan) - 1
    /\ ~ReserveExceeded(current_time, Tag(idx), data.availableTime)
    /\ LET filtered == FilterExercises(EXERCISES, data, focus, Tag(idx))
           block_time == SubtypeTime(Tag(idx), DefaultBlockTime)
       IN  /\ filtered # <<>>
           /\ \E rec \in Picks(filtered, Plan[idx], "None") :
                  output' = Append(output, rec)
           /\ current_time' = current_time + block_time
    /\ steps' = Append(steps, Step(idx, "chosen"))
    /\ idx' = idx + 1
    /\ UNCHANGED <<EXERCISES, request, data, focus, pc, response>>

\* Lines 285-301, the branch taken (current_time is not advanced)
CoreChosen ==
    /\ pc = "core"
    /\ LET k == Len(Plan)
           filtered == FilterExercises(EXERCISES, data, focus, Tag(k))
           block_time == SubtypeTime(Tag(k), DefaultBlockTime)
       IN  /\ filtered # <<>>
           /\ Fits(current_time, block_time, data.availableTime)
           /\ \E rec \in Picks(filtered, Plan[k], "Core exercise to finish the workout") :
                  output' = Append(output, rec)
           /\ steps' = Append(steps, Step(k, "chosen"))
    /\ pc' = "finish"
    /\ UNCHANGED <<EXERCISES, request, data, focus, current_time, idx, response>>

\* Lines 285-286, the branch not taken
CoreOmitted ==
    /\ pc = "core"
    /\ LET k == Len(Plan)
           filtered == FilterExercises(EXERCISES, data, focus, Tag(k))
           block_time == SubtypeTime(Tag(k), DefaultBlockTime)
       IN  /\ ~(filtered # <<>> /\ Fits(current_time, block_time, data.availableTime))
           /\ steps' = Append(steps, Step(k, IF filtered = <<>> THEN "empty" ELSE "nofit"))
    /\ pc' = "finish"
    /\ UNCHANGED <<EXERCISES, request, data, focus, output, current_time, idx, response>>

\* Lines 303-304
RaiseNoExercises ==
    /\ pc = "finish"
    /\ output = <<>>
    /\ response' = Reply(400, "No exercises found matching criteria")
    /\ pc' = "done"
    /\ UNCHANGED <<EXERCISES, request, data, focus, output, current_time, idx, steps>>

\* Line 306
ReturnOutput ==
    /\ pc = "finish"
    /\ output # <<>>
    /\ response' = Reply(200, "")
    /\ pc' = "done"
    /\ UNCHANGED <<EXERCISES, request, data, focus, output, current_time, idx, steps>>

Next ==
    \/ RejectMissingArchetype
    \/ RejectInvalidArchetype
    \/ RejectInvalidFocus
    \/ Accept
    \/ MainLiftChosen
    \/ MainLiftOmitted
    \/ MiddleDone
    \/ MiddleBreak
    \/ MiddleSkip
    \/ MiddleChosen
    \/ CoreChosen
    \/ CoreOmitted
    \/ RaiseNoExercises
    \/ ReturnOutput

Spec == Init /\ [][Next]_vars


-----------------------------------------------------------------------------
(* Vocabulary of the properties *)

\* The request passed validation and the plan walk has begun.
Accepted == pc \notin {"start"} /\ focus # ""

Registered == request.archetype \in {"Prime", "Titan", "Vanguard", "Bodyweight"}

ValidFocus == NormalizeFocus(request.focus) \in DOMAIN focus_map

Returned == pc = "done" /\ response.status = 200

\* The slot attempts that placed a record, in order: ChosenSteps[i] placed output[i].
ChosenSteps == SelectSeq(steps, LAMBDA s : s.verdict = "chosen")

\* The duration cost of plan slot k, read from the table
Cost(k) == SUBTYPE_TIMES[Tag(k)]

RECURSIVE SumCost(_)
SumCost(ss) == IF ss = <<>> THEN 0 ELSE Cost(Head(ss).slot) + SumCost(Tail(ss))

\* The catalog record with the given name
ByName(n) == CHOOSE ex \in Range(EXERCISES) : ex.name = n

\* The filtered pool of plan slot k for this request
Pool(k) == FilterExercises(EXERCISES, data, focus, Tag(k))

PoolNames(k) == LET pool == Pool(k) IN {pool[j].name : j \in DOMAIN pool}

Last(s) == s[Len(s)]

-----------------------------------------------------------------------------
(* C1: for a non-empty catalog with unique names and a registered          *)
(* archetype, the returned list never contains the same exercise name      *)
(* twice.                                                                  *)

C1_NoRepeatedExercise ==
    (Returned /\ EXERCISES # <<>> /\ Registered)
        => \A i, j \in DOMAIN output : i # j => output[i].name # output[j].name

-----------------------------------------------------------------------------
(* C2: after every step of the handler the costs of the slots placed in    *)
(* the output so far sum to at most availableTime.                         *)

C2_BudgetRespected ==
    Accepted =>
        /\ Len(ChosenSteps) = Len(output)
        /\ SumCost(ChosenSteps) <= request.availableTime

\* A returned list of three slots whose costs use the budget up exactly.
C2_Witness ==
    /\ Returned
    /\ Len(output) = 3
    /\ SumCost(ChosenSteps) = request.availableTime

-----------------------------------------------------------------------------
(* C3: with a registered archetype and a valid focus, when no slot of the  *)
(* plan can be filled the handler returns an empty list and does not fail. *)

C3_EmptyPlanReturnsEmptyList ==
    (pc = "done" /\ Registered /\ ValidFocus /\ ChosenSteps = <<>>)
        => (response.status = 200 /\ output = <<>>)

-----------------------------------------------------------------------------
(* C4: a request whose archetype is non-empty and not registered fails     *)
(* with the client error of the archetype check and returns no exercises,  *)
(* whatever its other fields: no focus validation, no slot attempt.        *)

C4_UnknownArchetypeRejected ==
    (request.archetype # "" /\ request.archetype \notin DOMAIN ARCHETYPE_PLANS)
        => /\ pc \in {"start", "done"}
           /\ output = <<>> /\ steps = <<>> /\ focus = ""
           /\ pc = "done" => response = Reply(400, "Invalid archetype")

\* "Ghost" rejected although its focus is invalid as well.
C4_Witness ==
    /\ pc = "done"
    /\ request.archetype = "Ghost"
    /\ ~ValidFocus
    /\ request.userPrefs # <<>>
    /\ response.status = 400

-----------------------------------------------------------------------------
(* C5: every returned exercise has an equipment token in the effective     *)
(* equipment-access set: Bodyweight alone for the Bodyweight archetype,    *)
(* the six defaults when none is given, else the set given.                *)

C5_EffectiveSet ==
    IF request.archetype = "Bodyweight" THEN {"Bodyweight"}
    ELSE IF request.equipmentAccess = <<>>
         THEN {"Barbell", "Dumbbell", "Cable", "Kettlebell", "Machine", "Bodyweight"}
         ELSE Range(request.equipmentAccess)

C5_EquipmentRespected ==
    Accepted =>
        \A i \in DOMAIN output :
            Range(ByName(output[i].name).equipment) \cap C5_EffectiveSet # {}

\* A list returned for Barbell-only access from a catalog holding an exercise
\* that fits a filled slot in every respect but its equipment.
C5_Witness ==
    /\ Returned
    /\ request.equipmentAccess = <<"Barbell">>
    /\ request.archetype # "Bodyweight"
    /\ Len(output) >= 2
    /\ \E i \in DOMAIN output, j \in DOMAIN EXERCISES :
          /\ Tag(ChosenSteps[i].slot) \in {EXERCISES[j].workoutSubtype, EXERCISES[j].workoutRole}
          /\ ArchetypeMatch(EXERCISES[j], request.archetype)
          /\ "Barbell" \notin Range(EXERCISES[j].equipment)

-----------------------------------------------------------------------------
(* C6: with focus upper or lower, an exercise returned for a slot other    *)
(* than core has the focus as its bodyRegion, and one returned for the     *)
(* core slot has bodyRegion core.                                          *)

C6_FocusRespected ==
    (Accepted /\ focus \in {"upper", "lower"}) =>
        \A i \in DOMAIN output :
            ByName(output[i].name).bodyRegion =
                (IF Tag(ChosenSteps[i].slot) = "core" THEN "core" ELSE focus)

\* An upper-focus list holding a non-core and a core record.
C6_Witness ==
    /\ Returned
    /\ focus = "upper"
    /\ \E i, j \in DOMAIN output :
          /\ Tag(ChosenSteps[i].slot) # "core"
          /\ Tag(ChosenSteps[j].slot) = "core"

-----------------------------------------------------------------------------
(* C7: the alternatives of every output record are at most 3, pairwise     *)
(* different, never the chosen exercise, all from the slot's filtered pool *)
(* with the chosen muscle group; when fewer than 3 qualify, all of them.   *)

C7_Qualifying(i) ==
    {ex.name : ex \in {e \in Range(Pool(ChosenSteps[i].slot)) :
                          /\ e.name # output[i].name
                          /\ e.muscleGroup = output[i].muscleGroup}}

C7_AlternativesWellFormed ==
    Accepted =>
        \A i \in DOMAIN output :
            LET alts == output[i].alternatives
                qualifying == C7_Qualifying(i)
            IN  /\ Len(alts) <= 3
                /\ \A a, b \in DOMAIN alts : a # b => alts[a] # alts[b]
                /\ output[i].name \notin Range(alts)
                /\ Range(alts) \subseteq qualifying
                /\ Cardinality(qualifying) < 3 => Range(alts) = qualifying

\* A list in which one record had four qualifying alternatives and got three,
\* and another had fewer than three and got them all.
C7_Witness ==
    /\ Returned
    /\ \E i \in DOMAIN output :
          Cardinality(C7_Qualifying(i)) >= 4 /\ Len(output[i].alternatives) = 3
    /\ \E i \in DOMAIN output :
          Cardinality(C7_Qualifying(i)) \in {1, 2} /\ Len(output[i].alternatives) >= 1


-----------------------------------------------------------------------------
(* C8: for a slot that fits the budget, an empty strict query is retried   *)
(* with the focus relaxed and then without role matching (archetype,       *)
(* equipment and exclusions kept, exercises already chosen left out), so a *)
(* slot whose relaxed pool is non-empty is always filled.                  *)

\* The names placed in the output before slot attempt p
C8_ChosenBefore(p) ==
    {output[i].name : i \in 1..Len(SelectSeq(SubSeq(steps, 1, p - 1),
                                             LAMBDA s : s.verdict = "chosen"))}

\* The last query of the cascade at slot attempt p
C8_RelaxedPool(p) ==
    {ex \in Range(EXERCISES) :
        /\ ArchetypeMatch(ex, request.archetype)
        /\ Range(ex.equipment) \cap C5_EffectiveSet # {}
        /\ ~Excluded(ex, request.userPrefs)
        /\ ex.name \notin C8_ChosenBefore(p)}

C8_RelaxationFillsSlot ==
    Accepted =>
        \A p \in DOMAIN steps :
            (/\ steps[p].verdict = "empty"
             /\ steps[p].before + Cost(steps[p].slot) <= request.availableTime)
                => C8_RelaxedPool(p) = {}

-----------------------------------------------------------------------------
(* C9: the middle slots are visited in plan order; the loop ends at the    *)
(* first middle slot whose cost c has consumed + c > availableTime -       *)
(* cost(core), and no later middle slot is attempted; a middle slot that   *)
(* fits but has an empty pool consumes nothing and the next is attempted.  *)

\* Slot attempt p is an attempt of a middle slot (attempt 1 is the main lift).
C9_IsMiddle(p) == p \in DOMAIN steps /\ p >= 2 /\ steps[p].slot < Len(Plan)

C9_MiddleLoopPolicy ==
    Accepted =>
        /\ \A p \in DOMAIN steps : C9_IsMiddle(p) =>
              LET s == steps[p]
                  over == s.before + SUBTYPE_TIMES[Plan[s.slot][1]]
                              > request.availableTime - SUBTYPE_TIMES["core"]
              IN  /\ s.slot = p
                  /\ s.verdict \in {"break", "empty", "chosen"}
                  /\ s.verdict = "break" <=> over
                  /\ s.verdict = "empty" => PoolNames(s.slot) = {}
                  /\ s.verdict = "chosen" => PoolNames(s.slot) # {}
                  /\ p + 1 \in DOMAIN steps =>
                        /\ s.verdict = "break" =>
                              (steps[p + 1].slot = Len(Plan) /\ steps[p + 1].before = s.before)
                        /\ s.verdict = "empty" => steps[p + 1].before = s.before
                        /\ s.verdict = "chosen" =>
                              steps[p + 1].before = s.before + SUBTYPE_TIMES[Plan[s.slot][1]]
        \* once the loop is over, it ended at a break or visited every middle slot
        /\ pc \in {"core", "finish", "done"} =>
              \/ \E p \in DOMAIN steps : C9_IsMiddle(p) /\ steps[p].verdict = "break"
              \/ \A k \in 2..(Len(Plan) - 1) : \E p \in DOMAIN steps : steps[p].slot = k

\* The loop ended at a middle slot although a later middle slot with a
\* non-empty pool was cheap enough to leave room for the closing slot; before
\* that, a middle slot with an empty pool was passed over.
C9_Witness ==
    /\ Returned
    /\ \E p \in DOMAIN steps :
          /\ C9_IsMiddle(p)
          /\ steps[p].verdict = "break"
          /\ \E k \in (steps[p].slot + 1)..(Len(Plan) - 1) :
                /\ steps[p].before + Cost(k) <= request.availableTime - Cost(Len(Plan))
                /\ PoolNames(k) # {}
          /\ \E q \in 2..(p - 1) : steps[q].verdict = "empty"

-----------------------------------------------------------------------------
(* C10: with a registered archetype and valid focus, a non-empty closing   *)
(* pool and availableTime >= cost(first) + cost(closing), the closing      *)
(* slot's exercise is present and is the last record: the middle loop      *)
(* keeps consumed <= availableTime - cost(core).  With cost(closing) <=    *)
(* availableTime < cost(first) + cost(closing) the closing slot is present *)
(* only if the first slot was not filled.                                  *)

C10_ClosingPlaced ==
    /\ steps # <<>>
    /\ Last(steps) = [slot |-> Len(Plan), before |-> current_time, verdict |-> "chosen"]
    /\ output # <<>>
    /\ Last(output).name \in PoolNames(Len(Plan))
    /\ Last(output).sets = Plan[Len(Plan)][2]
    /\ Last(output).reps = Plan[Len(Plan)][3]

C10_ClosingSlotGuaranteed ==
    Accepted =>
        LET closing == Cost(Len(Plan))
            T == request.availableTime
        IN  /\ T >= Cost(1) + closing =>
                  /\ pc \in {"middle", "core"} => current_time <= T - closing
                  /\ (pc \in {"finish", "done"} /\ PoolNames(Len(Plan)) # {}) =>
                        /\ C10_ClosingPlaced
                        /\ pc = "done" => response.status = 200
            /\ (/\ T < Cost(1) + closing
                /\ pc \in {"finish", "done"}
                /\ C10_ClosingPlaced)
                  => steps[1].verdict # "chosen"

\* Main lift and two middle slots filled right up to the reserve, then the
\* closing slot placed last.
C10_Witness ==
    /\ Returned
    /\ request.availableTime >= Cost(1) + Cost(Len(Plan))
    /\ Len(output) >= 4
    /\ steps[1].verdict = "chosen"
    /\ current_time = request.availableTime - Cost(Len(Plan))
    /\ C10_ClosingPlaced


====
